---- MODULE Spec2Model ----
(***************************************************************************)
(* Model of logger_utils.py: TerminalLogger (level filter, formatting,     *)
(* terminal + file emission), the LoggedStream wrappers installed over     *)
(* sys.stdout / sys.stderr, and the context-manager session.               *)
(*                                                                         *)
(* Text is a sequence of tokens (strings).  A stream handle is a record    *)
(* [chan, layers]: chan is the real terminal channel at the bottom and     *)
(* layers the LoggedStream wrappers stacked on it, innermost first.        *)
(* Every handler is a function from a world record to a world record; an   *)
(* exception in flight (field exc) skips the statements that follow it.    *)
(***************************************************************************)
EXTENDS Integers, Sequences, FiniteSets, TLC

VARIABLES sys_stdout, sys_stderr, loggers, fs, session, hist, trace, last, calls

vars == <<sys_stdout, sys_stderr, loggers, fs, session, hist, trace, last, calls>>

(* ------------------------------ bounds -------------------------------- *)

\* log-method calls and program writes in one behaviour
MaxCalls == 1

\* sessions entered on one file path in one behaviour
MaxSessions == 2

(* ----------------------------- universe ------------------------------- *)

Loggers == {"A", "B"}

\* the loggers the program constructs
Crew == {"A"}

LevelNames == {"DEBUG", "INFO", "WARNING", "ERROR", "CRITICAL"}

\* level names handed to the constructor
LevelInputs == LevelNames \cup {"debug", "Info", "warning", "eRRor", "Critical", "verbose", ""}

\* explicit file names handed to the constructor
FileNames == {"run", "run.log"}

\* messages handed to the log methods
Messages == {<<" ", "msg", "\n">>}

\* contents written to sys.stdout / sys.stderr by the program
Writes == {<<"out">>, <<"\n">>, <<>>}

\* faults raised inside a session: exception type name and description
Faults == {[name |-> "ZeroDivisionError", val |-> "division by zero"]}

\* content of the file logs/run.log before the program starts; no other
\* file exists yet
PriorContent == <<<<"old", "\n">>>>

NoExc == "none"

NoFault == [name |-> "none", val |-> "none"]

(* ------------------------------- text --------------------------------- *)

IsSpace(tok) == tok \in {" ", "\n", "\t"}

RECURSIVE LStrip(_)
LStrip(s) == IF s = <<>> \/ ~IsSpace(Head(s)) THEN s ELSE LStrip(Tail(s))

RECURSIVE RStrip(_)
RStrip(s) ==
  IF s = <<>> \/ ~IsSpace(s[Len(s)]) THEN s ELSE RStrip(SubSeq(s, 1, Len(s) - 1))

\* str.strip()
Strip(s) == RStrip(LStrip(s))

\* the level name taken as spelled
UpperKeep(name) == name

\* str.upper() on the level names in use
Upper(name) ==
  CASE name = "debug" -> "DEBUG"
    [] name = "Info" -> "INFO"
    [] name = "warning" -> "WARNING"
    [] name = "eRRor" -> "ERROR"
    [] name = "Critical" -> "CRITICAL"
    [] name = "verbose" -> "VERBOSE"
    [] OTHER -> name

NameLen(name) ==
  CASE name = "DEBUG" -> 5
    [] name = "INFO" -> 4
    [] name = "WARNING" -> 7
    [] name = "ERROR" -> 5
    [] name = "CRITICAL" -> 8
    [] OTHER -> 8

\* str.ljust(width): the name followed by the padding blanks
LJust(name, width) ==
  <<name>> \o [i \in 1..(IF width > NameLen(name) THEN width - NameLen(name) ELSE 0) |-> " "]

\* str.endswith(".log") on the file names in use
EndsWithLog(name) == name \in {"run.log", "job.log"}

\* f"{log_filename}.log" on the file names in use
AddLogSuffix(name) ==
  CASE name = "run" -> "run.log"
    [] name = "job" -> "job.log"
    [] OTHER -> "other.log"

\* os.path.abspath(log_dir), log_dir left at its default
LogDir == "/cwd/logs"

\* os.path.join(log_dir, log_filename)
PathJoin(dir, name) == <<dir, "/", name>>

Paths == {PathJoin(LogDir, n) : n \in {"run.log", "job.log"}}

(* ------------------------------ levels -------------------------------- *)

LOG_LEVELS ==
  [n \in LevelNames |->
     CASE n = "DEBUG" -> 10
       [] n = "INFO" -> 20
       [] n = "WARNING" -> 30
       [] n = "ERROR" -> 40
       [] n = "CRITICAL" -> 50]

\* LOG_LEVELS.get(name, default)
LevelGet(name, default) == IF name \in DOMAIN LOG_LEVELS THEN LOG_LEVELS[name] ELSE default

(* ----------------------------- handles -------------------------------- *)

Terminal(chan) == [chan |-> chan, layers |-> <<>>]

NoHandle == [chan |-> "none", layers |-> <<>>]

IsWrapper(h) == h.layers # <<>>

\* the LoggedStream on top of a wrapped handle
Top(h) == h.layers[Len(h.layers)]

\* LoggedStream.original_stream
Under(h) == [h EXCEPT !.layers = SubSeq(@, 1, Len(@) - 1)]

\* LoggedStream(logger, original_stream, stream_type)
LoggedStream(l, original_stream, stream_type) ==
  [original_stream EXCEPT !.layers = Append(@, [logger |-> l, stream_type |-> stream_type])]

(* ------------------------------ files --------------------------------- *)

NoFile == [state |-> "none", path |-> <<>>, mode |-> "none"]

\* one step of a handler: a _write_log call ("call", with the stream then
\* installed as sys.stdout), a formatted line ("emit"), a stream write or
\* flush, a file open/write/flush/close, a capture or a restore
Ev(kind, l, level, text, h) ==
  [kind |-> kind, lg |-> l, level |-> level, text |-> text, h |-> h]

Note(w, e) == [w EXCEPT !.trace = Append(@, e)]

Raise(w, e) == [w EXCEPT !.exc = e]

(* ---------------------------- formatting ------------------------------ *)

\* the default log_format, cut at its substitution points
DefaultFormat == <<"[", "%(asctime)s", "] [", "%(level)s", "] ", "%(message)s">>

\* a custom log_format naming a key _format_log does not supply
UnknownKeyFormat == <<"%(name)s", " ", "%(message)s">>

IsSlot(tok) == tok \in {"%(asctime)s", "%(level)s", "%(message)s", "%(name)s"}

\* datetime.now().strftime("%Y-%m-%d %H:%M:%S"): one reading per call
AscTime == <<"YYYY-mm-dd HH:MM:SS">>

\* the dict _format_log hands to the % operator
FormatArgs(level, message) ==
  [asctime |-> AscTime, level |-> LJust(level, 8), message |-> Strip(message)]

SlotOk(tok) == tok \in {"%(asctime)s", "%(level)s", "%(message)s"}

SlotValue(tok, args) ==
  CASE tok = "%(asctime)s" -> args.asctime
    [] tok = "%(level)s" -> args.level
    [] tok = "%(message)s" -> args.message
    [] OTHER -> <<>>

\* log_format % args: ok is FALSE when the template names a missing key
RECURSIVE Interpolate(_, _)
Interpolate(template, args) ==
  IF template = <<>> THEN [ok |-> TRUE, text |-> <<>>]
  ELSE LET tok == Head(template)
           rest == Interpolate(Tail(template), args)
       IN IF IsSlot(tok) /\ ~SlotOk(tok) THEN [ok |-> FALSE, text |-> <<>>]
          ELSE IF ~rest.ok THEN rest
          ELSE [ok |-> TRUE,
                text |-> (IF IsSlot(tok) THEN SlotValue(tok, args) ELSE <<tok>>) \o rest.text]

\* TerminalLogger._format_log
FormatLog(lg, level, message) == Interpolate(lg.log_format, FormatArgs(level, message))

(* -------------------------- file operations --------------------------- *)

\* open(log_filepath, mode): "w" truncates, "a" keeps the content; the
\* file system may refuse (io = "denied") and open raises OSError
OpenFile(w, l, mode) ==
  IF w.exc # NoExc THEN w
  ELSE IF w.io = "denied" THEN Raise(w, "OSError")
  ELSE LET path == w.loggers[l].log_filepath
       IN [w EXCEPT !.fs[path] = IF mode = "w" THEN <<>> ELSE @,
                    !.loggers[l].log_file = [state |-> "open", path |-> path, mode |-> mode],
                    !.trace = Append(@, Ev("open", l, mode, <<>>, NoHandle))]

\* log_file.write(text): a closed file raises ValueError, a full disk
\* (io = "full") OSError
FileWrite(w, l, text) ==
  IF w.exc # NoExc THEN w
  ELSE LET f == w.loggers[l].log_file
       IN IF f.state = "closed" THEN Raise(w, "ValueError")
          ELSE IF w.io = "full" THEN Raise(w, "OSError")
          ELSE [w EXCEPT !.fs[f.path] = Append(@, text),
                         !.trace = Append(@, Ev("fwrite", l, "", text, NoHandle))]

\* log_file.flush(): a closed file raises ValueError
FileFlush(w, l) ==
  IF w.exc # NoExc THEN w
  ELSE IF w.loggers[l].log_file.state = "closed" THEN Raise(w, "ValueError")
  ELSE Note(w, Ev("fflush", l, "", <<>>, NoHandle))

\* log_file.close(): closing a closed file does nothing
FileClose(w, l) ==
  IF w.exc # NoExc THEN w
  ELSE [w EXCEPT !.loggers[l].log_file.state = "closed",
                 !.trace = Append(@, Ev("close", l, "", <<>>, NoHandle))]

\* truth value of self.log_file: None is false, a file object is true
FileTruthy(f) == f.state # "none"

(* --------------------- emission and interception ---------------------- *)

RECURSIVE HandleWrite(_, _, _)
RECURSIVE HandleFlush(_, _)
RECURSIVE WriteLog(_, _, _, _)

\* flush() of a stream: a LoggedStream flushes the stream it wraps
HandleFlush(w, h) ==
  IF w.exc # NoExc THEN w
  ELSE IF IsWrapper(h) THEN HandleFlush(w, Under(h))
  ELSE Note(w, Ev("flush", "", "", <<>>, h))

\* a LoggedStream that logs both streams at INFO
StreamLevelInfo(stream_type) == "INFO"

\* the severity a LoggedStream logs at
StreamLevel(stream_type) == IF stream_type = "stderr" THEN "ERROR" ELSE "INFO"

\* write(message) on a stream: the terminal itself, or LoggedStream.write
HandleWrite(w, h, message) ==
  IF w.exc # NoExc THEN w
  ELSE IF ~IsWrapper(h) THEN Note(w, Ev("write", "", "", message, h))
  ELSE LET w0 == Note(w, Ev("write", "", "", message, h))
           w1 == IF Strip(message) # <<>>
                 THEN WriteLog(w0, Top(h).logger, StreamLevel(Top(h).stream_type), message)
                 ELSE w0
           w2 == HandleWrite(w1, Under(h), message)
       IN HandleFlush(w2, Under(h))

\* print(text, file=h): the text, then the line end, as two writes
PrintTo(w, h, text) == HandleWrite(HandleWrite(w, h, text), h, <<"\n">>)

\* _write_log with an exclusive threshold: a call at the threshold is dropped
WriteLogExclusive(w, l, level, message) ==
  IF w.exc # NoExc THEN w
  ELSE LET lg == w.loggers[l]
           w0 == Note(w, Ev("call", l, level, message, w.sys_stdout))
       IN IF LevelGet(Upper(level), 0) <= lg.log_level THEN w0
          ELSE LET formatted_log == FormatLog(lg, level, message)
               IN IF ~formatted_log.ok THEN Raise(w0, "KeyError")
                  ELSE LET w1 == Note(w0, Ev("emit", l, level, formatted_log.text, NoHandle))
                           w2 == PrintTo(w1, lg.original_stdout, formatted_log.text)
                       IN IF FileTruthy(lg.log_file)
                          THEN FileFlush(FileWrite(w2, l, formatted_log.text \o <<"\n">>), l)
                          ELSE w2

\* _write_log writing the raw message, not the formatted line, to the file
WriteLogUnformatted(w, l, level, message) ==
  IF w.exc # NoExc THEN w
  ELSE LET lg == w.loggers[l]
           w0 == Note(w, Ev("call", l, level, message, w.sys_stdout))
       IN IF LevelGet(Upper(level), 0) < lg.log_level THEN w0
          ELSE LET formatted_log == FormatLog(lg, level, message)
               IN IF ~formatted_log.ok THEN Raise(w0, "KeyError")
                  ELSE LET w1 == Note(w0, Ev("emit", l, level, formatted_log.text, NoHandle))
                           w2 == PrintTo(w1, lg.original_stdout, formatted_log.text)
                       IN IF FileTruthy(lg.log_file)
                          THEN FileFlush(FileWrite(w2, l, message \o <<"\n">>), l)
                          ELSE w2

\* TerminalLogger._write_log
WriteLog(w, l, level, message) ==
  IF w.exc # NoExc THEN w
  ELSE LET lg == w.loggers[l]
           w0 == Note(w, Ev("call", l, level, message, w.sys_stdout))
       IN IF LevelGet(Upper(level), 0) < lg.log_level THEN w0
          ELSE LET formatted_log == FormatLog(lg, level, message)
               IN IF ~formatted_log.ok THEN Raise(w0, "KeyError")
                  ELSE LET w1 == Note(w0, Ev("emit", l, level, formatted_log.text, NoHandle))
                           w2 == PrintTo(w1, lg.original_stdout, formatted_log.text)
                       IN IF FileTruthy(lg.log_file)
                          THEN FileFlush(FileWrite(w2, l, formatted_log.text \o <<"\n">>), l)
                          ELSE w2

\* TerminalLogger.debug / info / warning / error / critical
LogMethod(w, l, level, message) == WriteLog(w, l, level, message)

\* capture_terminal_output wrapping the streams installed at the moment
CaptureInstalled(w, l) ==
  IF w.exc # NoExc THEN w
  ELSE [w EXCEPT !.sys_stdout = LoggedStream(l, w.sys_stdout, "stdout"),
                 !.sys_stderr = LoggedStream(l, w.sys_stderr, "stderr"),
                 !.trace = Append(@, Ev("capture", l, "", <<>>, NoHandle))]

\* TerminalLogger.capture_terminal_output
CaptureTerminalOutput(w, l) ==
  IF w.exc # NoExc THEN w
  ELSE LET lg == w.loggers[l]
       IN [w EXCEPT !.sys_stdout = LoggedStream(l, lg.original_stdout, "stdout"),
                    !.sys_stderr = LoggedStream(l, lg.original_stderr, "stderr"),
                    !.trace = Append(@, Ev("capture", l, "", <<>>, NoHandle))]

\* TerminalLogger.restore_terminal
RestoreTerminal(w, l) ==
  IF w.exc # NoExc THEN w
  ELSE LET lg == w.loggers[l]
       IN [w EXCEPT !.sys_stdout = lg.original_stdout,
                    !.sys_stderr = lg.original_stderr,
                    !.trace = Append(@, Ev("restore", l, "", <<>>, NoHandle))]

(* ------------------------------ session ------------------------------- *)

StartMarker == <<"===== Logging started =====">>

EndMarker == <<"===== Logging finished =====">>

\* f"Log file path: {self.log_filepath}"
PathLine(lg) == <<"Log file path: ">> \o lg.log_filepath

\* f"Task exception: {exc_type.__name__} - {exc_val}"
FaultLine(fault) == <<"Task exception: ", fault.name, " - ", fault.val>>

\* __enter__ always truncating
OpenModeTruncate(lg) == "w"

\* __enter__ always appending
OpenModeAppend(lg) == "a"

\* the mode __enter__ opens the file in
OpenMode(lg) == IF lg.overwrite THEN "w" ELSE "a"

\* TerminalLogger.__init__
Init_(w, l, log_filename, log_level, log_format, overwrite) ==
  LET name == IF EndsWithLog(log_filename) THEN log_filename ELSE AddLogSuffix(log_filename)
  IN [w EXCEPT !.loggers[l] =
        [constructed |-> TRUE,
         log_level |-> LevelGet(Upper(log_level), LOG_LEVELS["INFO"]),
         overwrite |-> overwrite,
         log_filepath |-> PathJoin(LogDir, name),
         log_format |-> log_format,
         original_stdout |-> w.sys_stdout,
         original_stderr |-> w.sys_stderr,
         log_file |-> NoFile]]

\* __enter__ with the streams captured last instead of before the two lines
EnterCaptureLast(w, l) ==
  LET w1 == OpenFile(w, l, OpenMode(w.loggers[l]))
      w2 == LogMethod(w1, l, "INFO", StartMarker)
      w3 == LogMethod(w2, l, "INFO", PathLine(w.loggers[l]))
  IN CaptureTerminalOutput(w3, l)

\* TerminalLogger.__enter__
Enter_(w, l) ==
  LET w1 == OpenFile(w, l, OpenMode(w.loggers[l]))
      w2 == CaptureTerminalOutput(w1, l)
      w3 == LogMethod(w2, l, "INFO", StartMarker)
  IN LogMethod(w3, l, "INFO", PathLine(w.loggers[l]))

\* __exit__ with the streams restored last instead of first
ExitRestoreLast(w, l, fault) ==
  LET w2 == IF fault # NoFault THEN LogMethod(w, l, "ERROR", FaultLine(fault)) ELSE w
      w3 == LogMethod(w2, l, "INFO", EndMarker)
      w4 == IF FileTruthy(w3.loggers[l].log_file) THEN FileClose(w3, l) ELSE w3
  IN [world |-> RestoreTerminal(w4, l), suppress |-> FALSE]

\* __exit__ returning True, which swallows the fault
ExitSuppress(w, l, fault) ==
  LET w1 == RestoreTerminal(w, l)
      w2 == IF fault # NoFault THEN LogMethod(w1, l, "ERROR", FaultLine(fault)) ELSE w1
      w3 == LogMethod(w2, l, "INFO", EndMarker)
      w4 == IF FileTruthy(w3.loggers[l].log_file) THEN FileClose(w3, l) ELSE w3
  IN [world |-> w4, suppress |-> TRUE]

\* TerminalLogger.__exit__; the result is the world and the value returned
Exit_(w, l, fault) ==
  LET w1 == RestoreTerminal(w, l)
      w2 == IF fault # NoFault THEN LogMethod(w1, l, "ERROR", FaultLine(fault)) ELSE w1
      w3 == LogMethod(w2, l, "INFO", EndMarker)
      w4 == IF FileTruthy(w3.loggers[l].log_file) THEN FileClose(w3, l) ELSE w3
  IN [world |-> w4, suppress |-> FALSE]

\* what the with statement raises after __exit__: what __exit__ raised, else
\* the fault of the block unless __exit__ returned a true value
WithOutcome(fault, r) ==
  IF r.world.exc # NoExc THEN r.world.exc
  ELSE IF fault # NoFault /\ ~r.suppress THEN fault.name
  ELSE NoExc

\* get_logger: what the caller of the generator context manager sees.  The
\* inner with statement runs __exit__; the generator ends (the block ended
\* normally, or the fault was swallowed), re-raises the fault thrown into
\* it, or raises what __exit__ raised
GetLoggerOutcome(fault, r) ==
  LET inner == WithOutcome(fault, r)
  IN IF fault = NoFault THEN inner
     ELSE IF inner = NoExc THEN NoExc
     ELSE IF inner = fault.name THEN fault.name
     ELSE inner

(* ------------------------------- state -------------------------------- *)

Unconstructed ==
  [constructed |-> FALSE, log_level |-> 0, overwrite |-> FALSE, log_filepath |-> <<>>,
   log_format |-> <<>>, original_stdout |-> NoHandle, original_stderr |-> NoHandle,
   log_file |-> NoFile]

\* the process as a handler finds it, on a file system that works
World ==
  [sys_stdout |-> sys_stdout, sys_stderr |-> sys_stderr, loggers |-> loggers, fs |-> fs,
   trace |-> <<>>, exc |-> NoExc, io |-> "ok"]

\* the process as a handler finds it, on a file system in state io
WorldIO(io) == [World EXCEPT !.io = io]

\* what the program did last: the call, its arguments (level also carries
\* the channel of a write and the kind of session an exit ends), the stream
\* installed as sys.stdout when it was made (for a write, the stream
\* written), and the exception the caller saw
Op(op, l, level, text, fault, h, exc) ==
  [op |-> op, lg |-> l, level |-> level, text |-> text, fault |-> fault, h |-> h, exc |-> exc]

\* the formatted lines logger l produced in a run of events, in order
RECURSIVE Emitted(_, _)
Emitted(tr, l) ==
  IF tr = <<>> THEN <<>>
  ELSE (IF Head(tr).kind = "emit" /\ Head(tr).lg = l THEN <<Head(tr).text>> ELSE <<>>)
       \o Emitted(Tail(tr), l)

\* per path, the record of the sessions entered on it: the content found at
\* entry and the lines the session's logger produced while it was open
Record(h, lgs, open, tr) ==
  [p \in Paths |->
     IF h[p] # <<>> /\ h[p][Len(h[p])].lg \in open /\ ~h[p][Len(h[p])].done
     THEN [h[p] EXCEPT ![Len(h[p])].out = @ \o Emitted(tr, h[p][Len(h[p])].lg)]
     ELSE h[p]]

\* the session of logger l on its path is over
Finish(h, lgs, l) ==
  LET p == lgs[l].log_filepath
  IN IF h[p] # <<>> /\ h[p][Len(h[p])].lg = l
     THEN [h EXCEPT ![p][Len(h[p])].done = TRUE]
     ELSE h

Begin(h, lgs, l) ==
  LET p == lgs[l].log_filepath
  IN [h EXCEPT ![p] = Append(@, [lg |-> l, before |-> fs[p], out |-> <<>>, done |-> FALSE])]

OpenSessions == {l \in Loggers : session[l] # "Closed"}

Commit(w) ==
  /\ sys_stdout' = w.sys_stdout
  /\ sys_stderr' = w.sys_stderr
  /\ loggers' = w.loggers
  /\ fs' = w.fs
  /\ trace' = w.trace

Init ==
  /\ sys_stdout = Terminal("stdout")
  /\ sys_stderr = Terminal("stderr")
  /\ loggers = [l \in Loggers |-> Unconstructed]
  /\ fs = [p \in Paths |-> IF p = PathJoin(LogDir, "run.log") THEN PriorContent ELSE <<>>]
  /\ session = [l \in Loggers |-> "Closed"]
  /\ hist = [p \in Paths |-> <<>>]
  /\ trace = <<>>
  /\ last = Op("init", "", "", <<>>, NoFault, NoHandle, NoExc)
  /\ calls = 0

(* ------------------------------ actions ------------------------------- *)

\* the loggers are named in the order they are constructed
MayConstruct(l) ==
  /\ ~loggers[l].constructed
  /\ l = "A" \/ loggers["A"].constructed

\* one writer per file: no other logger holds the path open; and the bound
MayEnter(lgs, l) ==
  /\ session[l] = "Closed"
  /\ Len(hist[lgs[l].log_filepath]) < MaxSessions
  /\ \A k \in Loggers \ {l} :
        ~(lgs[k].log_file.state = "open" /\ lgs[k].log_file.path = lgs[l].log_filepath)

\* logger = TerminalLogger(log_filename=..., log_level=..., overwrite=...)
Construct(l, log_filename, log_level, log_format, overwrite) ==
  /\ MayConstruct(l)
  /\ LET w == Init_(World, l, log_filename, log_level, log_format, overwrite)
     IN /\ Commit(w)
        /\ last' = Op("construct", l, log_level, <<>>, NoFault, NoHandle, w.exc)
  /\ UNCHANGED <<session, hist, calls>>

\* with logger: ... entered
Enter(l) ==
  /\ loggers[l].constructed
  /\ MayEnter(loggers, l)
  /\ LET w == Enter_(World, l)
     IN /\ Commit(w)
        /\ last' = Op("enter", l, "", <<>>, NoFault, sys_stdout, w.exc)
        /\ session' = [session EXCEPT ![l] = IF w.exc = NoExc THEN "Open" ELSE "Closed"]
        /\ hist' = Record(Begin(hist, loggers, l), w.loggers, OpenSessions \cup {l}, w.trace)
  /\ UNCHANGED calls

\* with get_logger(log_filename=..., log_level=..., overwrite=...) as logger: ... entered
GetLogger(l, log_filename, log_level, overwrite) ==
  /\ MayConstruct(l)
  /\ LET w0 == Init_(World, l, log_filename, log_level, DefaultFormat, overwrite)
         w == Enter_(w0, l)
     IN /\ MayEnter(w0.loggers, l)
        /\ Commit(w)
        /\ last' = Op("get_logger", l, log_level, <<>>, NoFault, sys_stdout, w.exc)
        /\ session' = [session EXCEPT ![l] = IF w.exc = NoExc THEN "Managed" ELSE "Closed"]
        /\ hist' = Record(Begin(hist, w0.loggers, l), w.loggers, OpenSessions \cup {l}, w.trace)
  /\ UNCHANGED calls

\* the block of the with statement ends, normally or by a fault
Exit(l, fault) ==
  /\ session[l] # "Closed"
  /\ LET r == Exit_(World, l, fault)
         w == r.world
         raised == IF session[l] = "Managed" THEN GetLoggerOutcome(fault, r)
                   ELSE WithOutcome(fault, r)
     IN /\ Commit(w)
        /\ last' = Op("exit", l, session[l], <<>>, fault, sys_stdout, raised)
        /\ hist' = Finish(Record(hist, w.loggers, OpenSessions, w.trace), w.loggers, l)
  /\ session' = [session EXCEPT ![l] = "Closed"]
  /\ UNCHANGED calls

\* logger.debug(message) ... logger.critical(message)
Log(l, level, message) ==
  /\ loggers[l].constructed
  /\ calls < MaxCalls
  /\ LET w == LogMethod(World, l, level, message)
     IN /\ Commit(w)
        /\ last' = Op("log", l, level, message, NoFault, NoHandle, w.exc)
        /\ hist' = Record(hist, w.loggers, OpenSessions, w.trace)
  /\ calls' = calls + 1
  /\ UNCHANGED session

\* sys.stdout.write(message) / sys.stderr.write(message) by the program
Write(chan, message) ==
  /\ calls < MaxCalls
  /\ LET h == IF chan = "stdout" THEN sys_stdout ELSE sys_stderr
         w == HandleWrite(World, h, message)
     IN /\ Commit(w)
        /\ last' = Op("write", "", chan, message, NoFault, h, w.exc)
        /\ hist' = Record(hist, w.loggers, OpenSessions, w.trace)
  /\ calls' = calls + 1
  /\ UNCHANGED session

\* logger.capture_terminal_output() called directly
Capture(l) ==
  /\ loggers[l].constructed
  /\ LET w == CaptureTerminalOutput(World, l)
     IN /\ Commit(w)
        /\ last' = Op("capture", l, "", <<>>, NoFault, sys_stdout, w.exc)
  /\ UNCHANGED <<session, hist, calls>>

\* logger.restore_terminal() called directly
Restore(l) ==
  /\ loggers[l].constructed
  /\ LET w == RestoreTerminal(World, l)
     IN /\ Commit(w)
        /\ last' = Op("restore", l, "", <<>>, NoFault, sys_stdout, w.exc)
  /\ UNCHANGED <<session, hist, calls>>

Next ==
  \/ \E l \in Crew, n \in FileNames, v \in LevelInputs, o \in BOOLEAN :
        Construct(l, n, v, DefaultFormat, o)
  \/ \E l \in Crew, n \in FileNames, v \in LevelInputs, o \in BOOLEAN :
        GetLogger(l, n, v, o)
  \/ \E l \in Crew : Enter(l)
  \/ \E l \in Crew, f \in Faults \cup {NoFault} : Exit(l, f)
  \/ \E l \in Crew, v \in LevelNames, m \in Messages : Log(l, v, m)
  \/ \E c \in {"stdout", "stderr"}, m \in Writes : Write(c, m)
  \/ \E l \in Crew : Capture(l)
  \/ \E l \in Crew : Restore(l)

Spec == Init /\ [][Next]_vars

(* ------------------------------ claims -------------------------------- *)

\* a line as the file holds it
Nl(text) == text \o <<"\n">>

\* the default rendering "[timestamp] [LEVEL   ] message"
Rendered(level, message) ==
  <<"[", "YYYY-mm-dd HH:MM:SS", "] [">> \o LJust(level, 8) \o <<"] ">> \o Strip(message)

\* logger l has a LoggedStream of its own somewhere in stream h
Intercepts(l, h) == \E i \in 1..Len(h.layers) : h.layers[i].logger = l

\* the steps of logger l in a run of events: restores, _write_log calls, closes
RECURSIVE Steps(_, _)
Steps(tr, l) ==
  IF tr = <<>> THEN <<>>
  ELSE (IF Head(tr).lg = l /\ Head(tr).kind \in {"restore", "call", "close"}
        THEN <<[kind |-> Head(tr).kind, level |-> Head(tr).level, text |-> Head(tr).text]>>
        ELSE <<>>) \o Steps(Tail(tr), l)

Step(kind, level, text) == [kind |-> kind, level |-> level, text |-> text]

\* the order the exit transition is to follow
ExitOrder(fault) ==
  <<Step("restore", "", <<>>)>>
  \o (IF fault # NoFault THEN <<Step("call", "ERROR", FaultLine(fault))>> ELSE <<>>)
  \o <<Step("call", "INFO", EndMarker), Step("close", "", <<>>)>>

Positions(kinds) == {i \in 1..Len(trace) : trace[i].kind \in kinds}

\* C1: every session exit restores the default output and error channels,
\* then logs the fault line (only if a fault is in flight), then the end
\* marker, then closes the file; no line is emitted while an interceptor of
\* the logger is installed, before the restore, or after the close.
C1_ExitOrder ==
  last.op = "exit" =>
    /\ Steps(trace, last.lg) = ExitOrder(last.fault)
    /\ sys_stdout = loggers[last.lg].original_stdout
    /\ sys_stderr = loggers[last.lg].original_stderr
    /\ loggers[last.lg].log_file.state = "closed"
    /\ \A i \in Positions({"call"}) :
          ~Intercepts(last.lg, trace[i].h) /\ trace[i].h = loggers[last.lg].original_stdout
    /\ \A i \in Positions({"emit", "write", "fwrite"}) :
          /\ \E j \in Positions({"restore"}) : j < i
          /\ \A j \in Positions({"close"}) : i < j

\* an exit with a fault in flight that emitted the fault line and the end marker
C1_Witness ==
  /\ last.op = "exit"
  /\ last.fault # NoFault
  /\ IsWrapper(last.h)
  /\ \E i, j \in Positions({"fwrite"}) :
        /\ i < j
        /\ trace[i].text = Nl(Rendered("ERROR", FaultLine(last.fault)))
        /\ trace[j].text = Nl(Rendered("INFO", EndMarker))

\* the file of the logger the last call was made on
LastFile == fs[loggers[last.lg].log_filepath]

FaultRecord == Nl(Rendered("ERROR", FaultLine(last.fault)))

EndRecord == Nl(Rendered("INFO", EndMarker))

FaultExit == last.op = "exit" /\ last.fault # NoFault

C3_RestoreSaved ==
  [][\A l \in Loggers :
       /\ loggers[l].constructed =>
            /\ loggers'[l].original_stdout = loggers[l].original_stdout
            /\ loggers'[l].original_stderr = loggers[l].original_stderr
       /\ last'.lg = l /\ last'.op \in {"restore", "exit"} =>
            /\ sys_stdout' = loggers[l].original_stdout
            /\ sys_stderr' = loggers[l].original_stderr
       /\ last'.lg = l /\ last'.op \in {"capture", "enter", "get_logger"} =>
            /\ sys_stdout' = LoggedStream(l, loggers'[l].original_stdout, "stdout")
            /\ sys_stderr' = LoggedStream(l, loggers'[l].original_stderr, "stderr")
            /\ ~Intercepts(l, Under(sys_stdout'))
            /\ ~Intercepts(l, Under(sys_stderr'))]_vars

\* a capture started while a capture of the same logger is installed
C3_Witness ==
  /\ last.op = "capture"
  /\ Intercepts(last.lg, last.h)
  /\ Under(sys_stdout) = loggers[last.lg].original_stdout
  /\ session[last.lg] # "Closed"

\* C4 as stated: the file handle reference is non-null exactly while a
\* session is active.
C4_Original ==
  \A l \in Loggers :
    loggers[l].constructed => (loggers[l].log_file # NoFile <=> session[l] # "Closed")

\* the texts written to stream h in a run of events, in order
RECURSIVE WritesTo(_, _)
WritesTo(tr, h) ==
  IF tr = <<>> THEN <<>>
  ELSE (IF Head(tr).kind = "write" /\ Head(tr).h = h THEN <<Head(tr).text>> ELSE <<>>)
       \o WritesTo(Tail(tr), h)

\* the lines written to files in a run of events, in order
RECURSIVE FileWrites(_)
FileWrites(tr) ==
  IF tr = <<>> THEN <<>>
  ELSE (IF Head(tr).kind = "fwrite" THEN <<Head(tr).text>> ELSE <<>>) \o FileWrites(Tail(tr))

\* the _write_log calls in a run of events, in order
RECURSIVE LogCalls(_)
LogCalls(tr) ==
  IF tr = <<>> THEN <<>>
  ELSE (IF Head(tr).kind = "call"
        THEN <<[lg |-> Head(tr).lg, level |-> Head(tr).level, text |-> Head(tr).text]>>
        ELSE <<>>) \o LogCalls(Tail(tr))

\* C5: a log call below minLevel changes nothing (no terminal write, no
\* file write, streams, logger, files and session as before, no error);
\* a call exactly at minLevel is not dropped.
C5_BelowThresholdDropped ==
  [][last'.op = "log" =>
       /\ LOG_LEVELS[last'.level] < loggers[last'.lg].log_level =>
            /\ UNCHANGED <<sys_stdout, sys_stderr, loggers, fs, session, hist>>
            /\ \A i \in 1..Len(trace') : trace'[i].kind = "call"
            /\ last'.exc = NoExc
       /\ LOG_LEVELS[last'.level] = loggers[last'.lg].log_level =>
            WritesTo(trace', loggers[last'.lg].original_stdout) # <<>>]_vars

\* a dropped call made inside a session with interception active
C5_Witness ==
  /\ last.op = "log"
  /\ LOG_LEVELS[last.level] < loggers[last.lg].log_level
  /\ session[last.lg] # "Closed"
  /\ Intercepts(last.lg, sys_stdout)
  /\ Len(trace) = 1

\* C6: a log call at or above minLevel made while the session is open
\* appends exactly one line to the open file and writes exactly one line to
\* the saved terminal handle, both the same formatted line, whether or not
\* interception is active.
C6_OneLineEach ==
  [][last'.op = "log" /\ session[last'.lg] # "Closed"
       /\ LOG_LEVELS[last'.level] >= loggers[last'.lg].log_level =>
       LET lg == loggers[last'.lg]
           line == Rendered(last'.level, last'.text)
       IN /\ last'.exc = NoExc
          /\ FileWrites(trace') = <<Nl(line)>>
          /\ fs' = [fs EXCEPT ![lg.log_filepath] = Append(@, Nl(line))]
          /\ WritesTo(trace', lg.original_stdout) = <<line, <<"\n">>>>]_vars

\* a passing call in an open session after interception was switched off
C6_Witness ==
  /\ last.op = "log"
  /\ session[last.lg] # "Closed"
  /\ ~Intercepts(last.lg, sys_stdout)
  /\ FileWrites(trace) = <<Nl(Rendered(last.level, last.text))>>

\* C7 as stated: whenever the logger has no open file (before the first
\* session, and after a session has exited) a passing log call writes its
\* line to the saved terminal handle, skips the file and raises no error.
C7_Original ==
  (/\ last.op = "log"
   /\ LOG_LEVELS[last.level] >= loggers[last.lg].log_level
   /\ loggers[last.lg].log_file.state # "open") =>
     /\ last.exc = NoExc
     /\ FileWrites(trace) = <<>>
     /\ WritesTo(trace, loggers[last.lg].original_stdout)
          = <<Rendered(last.level, last.text), <<"\n">>>>

\* the lines of a session as the file holds them
Lines(out) == [i \in 1..Len(out) |-> Nl(out[i])]

\* the lines of a run of sessions, in order
RECURSIVE AllLines(_)
AllLines(h) == IF h = <<>> THEN <<>> ELSE Lines(Head(h).out) \o AllLines(Tail(h))

Appending(h) == \A i \in 1..Len(h) : ~loggers[h[i].lg].overwrite

\* C8: with overwrite=false the file of sequential sessions on one path is
\* the prior content, then all lines of the first session, then all lines
\* of the second (and of each later one), in order.
C8_AppendKeepsAll ==
  \A p \in Paths :
    hist[p] # <<>> /\ Appending(hist[p]) => fs[p] = hist[p][1].before \o AllLines(hist[p])

\* two finished appending sessions on a file that had content before
C8_Witness ==
  \E p \in Paths :
    /\ Len(hist[p]) = 2 /\ Appending(hist[p])
    /\ hist[p][1].done /\ hist[p][2].done
    /\ hist[p][1].before # <<>> /\ hist[p][1].out # <<>> /\ hist[p][2].out # <<>>

\* C9: with overwrite=true every enter truncates: the file holds exactly
\* the lines of the latest session on the path.
C9_OverwriteTruncates ==
  \A p \in Paths :
    hist[p] # <<>> /\ loggers[hist[p][Len(hist[p])].lg].overwrite =>
      fs[p] = Lines(hist[p][Len(hist[p])].out)

\* a second overwriting session has exited after a first one that wrote lines
C9_Witness ==
  \E p \in Paths :
    /\ Len(hist[p]) = 2 /\ loggers[hist[p][2].lg].overwrite
    /\ hist[p][1].done /\ hist[p][2].done
    /\ hist[p][1].before # <<>> /\ hist[p][1].out # <<>> /\ hist[p][2].out # <<>>

Blank(text) == \A i \in 1..Len(text) : text[i] \in {" ", "\n", "\t"}

\* C10: a write to an installed wrapper whose content is not blank makes
\* exactly one log call on the wrapper's logger, at INFO for sys.stdout and
\* at ERROR for sys.stderr, with the content as message, and with the
\* logger's file open the record is written exactly when that severity
\* passes minLevel; a blank or empty write makes no log call.
C10_WrapperRoutes ==
  last.op = "write" /\ IsWrapper(last.h) =>
    LET l == Top(last.h).logger
        severity == IF last.level = "stdout" THEN "INFO" ELSE "ERROR"
    IN IF Blank(last.text)
       THEN LogCalls(trace) = <<>> /\ FileWrites(trace) = <<>>
       ELSE /\ LogCalls(trace) = <<[lg |-> l, level |-> severity, text |-> last.text]>>
            /\ loggers[l].log_file.state = "open" =>
                 FileWrites(trace) =
                   IF LOG_LEVELS[severity] >= loggers[l].log_level
                   THEN <<Nl(Rendered(severity, last.text))>>
                   ELSE <<>>

\* a write to the sys.stderr wrapper that was recorded in the file
C10_Witness ==
  /\ last.op = "write" /\ IsWrapper(last.h)
  /\ last.level = "stderr"
  /\ ~Blank(last.text)
  /\ FileWrites(trace) = <<Nl(Rendered("ERROR", last.text))>>

(* ----------------- a program met by failures (SpecF) ------------------- *)

\* log_format values handed to the constructor
Formats == {DefaultFormat, UnknownKeyFormat}

\* what the file system does during one call: works, refuses to open, is full
IOStates == {"ok", "denied", "full"}

\* with logger: ... entered, on a file system in state io
EnterIO(l, io) ==
  /\ loggers[l].constructed
  /\ MayEnter(loggers, l)
  /\ LET w == Enter_(WorldIO(io), l)
     IN /\ Commit(w)
        /\ last' = Op("enter", l, io, <<>>, NoFault, sys_stdout, w.exc)
        /\ session' = [session EXCEPT ![l] = IF w.exc = NoExc THEN "Open" ELSE "Closed"]
        /\ hist' = Record(Begin(hist, loggers, l), w.loggers, OpenSessions \cup {l}, w.trace)
  /\ UNCHANGED calls

\* the block of the with statement ends, on a file system in state io
ExitIO(l, fault, io) ==
  /\ session[l] # "Closed"
  /\ LET r == Exit_(WorldIO(io), l, fault)
         w == r.world
         raised == IF session[l] = "Managed" THEN GetLoggerOutcome(fault, r)
                   ELSE WithOutcome(fault, r)
     IN /\ Commit(w)
        /\ last' = Op("exit", l, session[l], <<>>, fault, sys_stdout, raised)
        /\ hist' = Finish(Record(hist, w.loggers, OpenSessions, w.trace), w.loggers, l)
  /\ session' = [session EXCEPT ![l] = "Closed"]
  /\ UNCHANGED calls

\* sys.stdout.write(message) / sys.stderr.write(message), file system in state io
WriteIO(chan, message, io) ==
  /\ calls < MaxCalls
  /\ LET h == IF chan = "stdout" THEN sys_stdout ELSE sys_stderr
         w == HandleWrite(WorldIO(io), h, message)
     IN /\ Commit(w)
        /\ last' = Op("write", "", chan, message, NoFault, h, w.exc)
        /\ hist' = Record(hist, w.loggers, OpenSessions, w.trace)
  /\ calls' = calls + 1
  /\ UNCHANGED session

NextF ==
  \/ \E l \in Crew, n \in FileNames, v \in LevelInputs, t \in Formats, o \in BOOLEAN :
        Construct(l, n, v, t, o)
  \/ \E l \in Crew, n \in FileNames, v \in LevelInputs, o \in BOOLEAN :
        GetLogger(l, n, v, o)
  \/ \E l \in Crew, io \in IOStates : EnterIO(l, io)
  \/ \E l \in Crew, f \in Faults \cup {NoFault}, io \in IOStates : ExitIO(l, f, io)
  \/ \E c \in {"stdout", "stderr"}, m \in Writes, io \in IOStates : WriteIO(c, m, io)
  \/ \E l \in Crew : Capture(l)
  \/ \E l \in Crew : Restore(l)

SpecF == Init /\ [][NextF]_vars

\* the writes of exactly this content to stream h in a run of events
Forwards(tr, h, text) == SelectSeq(WritesTo(tr, h), LAMBDA t : t = text)

\* C11 as stated: every write to an installed wrapper, blank or not and
\* whatever becomes of the log call, hands the unmodified content exactly
\* once to the stream the wrapper wraps.
C11_Original ==
  last.op = "write" /\ IsWrapper(last.h) =>
    Len(Forwards(trace, Under(last.h), last.text)) = 1

(* ------------------ two loggers, nested sessions (Spec2) ---------------- *)

\* each logger of the pair logs to a file of its own
FileOf(l) == IF l = "A" THEN "run" ELSE "job"

\* log_level values handed to the pair
PairLevels == {"INFO", "ERROR"}

\* overwrite left at its default by the pair
PairOverwrite == FALSE

\* the session of l is the innermost one: the with blocks are nested, so the
\* block entered last ends first
Innermost(l) ==
  IF OpenSessions \subseteq {l} \/ ~IsWrapper(sys_stdout) THEN TRUE
  ELSE Top(sys_stdout).logger = l

\* the innermost with block ends, normally or by a fault
ExitNested(l, fault) == Innermost(l) /\ Exit(l, fault)

Next2 ==
  \/ \E l \in Loggers, v \in PairLevels :
        Construct(l, FileOf(l), v, DefaultFormat, PairOverwrite)
  \/ \E l \in Loggers, v \in PairLevels : GetLogger(l, FileOf(l), v, PairOverwrite)
  \/ \E l \in Loggers : Enter(l)
  \/ \E l \in Loggers, f \in Faults \cup {NoFault} : ExitNested(l, f)
  \/ \E l \in Loggers, v \in PairLevels, m \in Messages : Log(l, v, m)
  \/ \E c \in {"stdout", "stderr"}, m \in Writes : Write(c, m)

Spec2 == Init /\ [][Next2]_vars

\* C12 as stated: a log call of any logger, one constructed while another
\* logger's session captures included, is never taken up by an installed
\* wrapper: the call is the only log call made, its terminal write goes to
\* a stream that is no wrapper, and no log file gains more than one record.
C12_Original ==
  last.op = "log" =>
    /\ Len(LogCalls(trace)) <= 1
    /\ \A i \in 1..Len(trace) : trace[i].kind = "write" => ~IsWrapper(trace[i].h)
    /\ \A k \in Loggers :
          Len(SelectSeq(trace, LAMBDA e : e.kind = "fwrite" /\ e.lg = k)) <= 1

\* C13 as stated: once every session of the two loggers has exited, the
\* sessions sequential or nested and each logger constructed at any point,
\* sys.stdout and sys.stderr are the streams of before any construction.
C13_Original ==
  last.op = "exit" /\ last.exc = NoExc /\ OpenSessions = {} =>
    sys_stdout = Terminal("stdout") /\ sys_stderr = Terminal("stderr")

\* the spellings of a level name, letter case apart
Spellings(n) ==
  CASE n = "DEBUG" -> {"DEBUG", "debug"}
    [] n = "INFO" -> {"INFO", "Info"}
    [] n = "WARNING" -> {"WARNING", "warning"}
    [] n = "ERROR" -> {"ERROR", "eRRor"}
    [] n = "CRITICAL" -> {"CRITICAL", "Critical"}

\* the threshold each level name stands for
Threshold(n) ==
  CASE n = "DEBUG" -> 10
    [] n = "INFO" -> 20
    [] n = "WARNING" -> 30
    [] n = "ERROR" -> 40
    [] n = "CRITICAL" -> 50

\* C14: the constructor resolves the level name without regard to letter
\* case to DEBUG=10, INFO=20, WARNING=30, ERROR=40, CRITICAL=50, every name
\* it does not know to INFO (20); the threshold is one of the five values.
C14_LevelResolved ==
  last.op \in {"construct", "get_logger"} =>
    LET minLevel == loggers[last.lg].log_level
    IN /\ minLevel \in {Threshold(n) : n \in LevelNames}
       /\ \A n \in LevelNames : last.level \in Spellings(n) => minLevel = Threshold(n)
       /\ (\A n \in LevelNames : last.level \notin Spellings(n)) => minLevel = 20

\* a name in other letter case was resolved
C14_Witness ==
  /\ last.op = "construct"
  /\ last.level = "eRRor"
  /\ loggers[last.lg].log_level = 40

\* the steps of logger l in a run of events: opens, captures, _write_log calls
RECURSIVE EnterSteps(_, _)
EnterSteps(tr, l) ==
  IF tr = <<>> THEN <<>>
  ELSE (IF Head(tr).lg = l /\ Head(tr).kind \in {"open", "capture", "call"}
        THEN <<Step(Head(tr).kind, Head(tr).level, Head(tr).text)>>
        ELSE <<>>) \o EnterSteps(Tail(tr), l)

\* the order the enter transition is to follow
EnterOrder(lg) ==
  <<Step("open", IF lg.overwrite THEN "w" ELSE "a", <<>>), Step("capture", "", <<>>),
    Step("call", "INFO", StartMarker), Step("call", "INFO", PathLine(lg))>>

Entered == last.op \in {"enter", "get_logger"}

StartRecord == Rendered("INFO", StartMarker)

PathRecord == Rendered("INFO", PathLine(loggers[last.lg]))

\* the file as the session entered last on the logger's path found it
FoundByEnter ==
  LET h == hist[loggers[last.lg].log_filepath]
  IN IF loggers[last.lg].overwrite THEN <<>> ELSE h[Len(h)].before

\* the enter transition took its steps in order, the two lines (those of
\* lines) going to the original terminal and the file, none captured
EnterSequence(lines) ==
  LET lg == loggers[last.lg]
  IN /\ EnterSteps(trace, last.lg) = EnterOrder(lg)
     /\ Len(LogCalls(trace)) = 2
     /\ sys_stdout = LoggedStream(last.lg, lg.original_stdout, "stdout")
     /\ sys_stderr = LoggedStream(last.lg, lg.original_stderr, "stderr")
     /\ \A i \in Positions({"write"}) : trace[i].h = lg.original_stdout
     /\ WritesTo(trace, lg.original_stdout)
          = IF lines = <<>> THEN <<>>
            ELSE <<StartRecord, <<"\n">>, PathRecord, <<"\n">>>>
     /\ FileWrites(trace) = lines
     /\ LastFile = FoundByEnter \o lines

\* C15 as stated: enter opens the file (truncating if overwrite, else
\* appending), then installs the interceptors on both channels, then emits
\* the start marker and the file path as INFO records, in this order; both
\* lines reach the original terminal and the file, uncaptured, and are the
\* first lines the session adds to the file.
C15_Original == Entered => EnterSequence(<<Nl(StartRecord), Nl(PathRecord)>>)

\* C15 amended: enter takes the same steps in the same order for every
\* minLevel; the two INFO lines reach the original terminal and the file,
\* uncaptured and first in the session, when minLevel <= INFO, and are
\* dropped by the threshold (the enter writes nothing) when it is higher.
C15_EnterSequence ==
  Entered =>
    EnterSequence(IF loggers[last.lg].log_level <= 20
                  THEN <<Nl(StartRecord), Nl(PathRecord)>>
                  ELSE <<>>)

\* an enter that appended the two lines to a file with content
C15_Witness ==
  /\ last.op = "enter"
  /\ ~loggers[last.lg].overwrite
  /\ loggers[last.lg].log_level <= 20
  /\ FoundByEnter # <<>>
  /\ LastFile = FoundByEnter \o <<Nl(StartRecord), Nl(PathRecord)>>

\* an enter that ended by raising
EnterFailed == last.op \in {"enter", "get_logger"} /\ last.exc # NoExc

\* C16 as stated: if enter fails for any reason (the file cannot be opened,
\* or a start line fails to format or to be written), nothing is leaked:
\* sys.stdout and sys.stderr are the saved handles, no interceptor stays
\* installed, and the logger holds no open file.
C16_Original ==
  EnterFailed =>
    /\ sys_stdout = loggers[last.lg].original_stdout
    /\ sys_stderr = loggers[last.lg].original_stderr
    /\ ~Intercepts(last.lg, sys_stdout) /\ ~Intercepts(last.lg, sys_stderr)
    /\ loggers[last.lg].log_file.state # "open"

\* C17 as stated: whenever exit has been invoked on an open session the
\* file is closed when exit finishes, also when the fault line or the end
\* marker fails to format or to be written and exit ends by raising.
C17_Original == last.op = "exit" => loggers[last.lg].log_file.state = "closed"

====
